---- MODULE Spec2Model ----
(***************************************************************************)
(* The weather proxy route (GET /api/weather) of the SkySense dashboard:   *)
(* one inbound request, its single outbound provider call, and the         *)
(* normalisation of the provider payload into the response body.           *)
(*                                                                         *)
(* Conventions.                                                            *)
(*  - A JavaScript string is a sequence of pieces read concatenated; the   *)
(*    strings the code slices or encodes (query, time, alert text) are     *)
(*    sequences of one-character pieces.                                   *)
(*  - A JavaScript object is a record; an absent property is a field that  *)
(*    is not in the record's DOMAIN.                                       *)
(*  - A number is an integer count of tenths (215 is 21.5), so that        *)
(*    Math.round has something to round.                                   *)
(***************************************************************************)
EXTENDS Integers, Sequences, FiniteSets, TLC

VARIABLES
    apiKey,           \* process.env.WEATHERAPI_KEY
    request,          \* the inbound request's search parameters
    pc,               \* where the handler is: idle, fetch, json, done
    pending,          \* seconds the fetch of line 149 has been pending
    calls,            \* outbound provider calls issued, in order
    weatherResponse,  \* the provider's answer (status line), once fetch settled
    data,             \* the provider's body handed to weatherResponse.json()
    mapped,           \* TRUE once the mapping of lines 169-254 has started
    thrown,           \* the fault caught at line 263, if any
    responses,        \* responses returned to the inbound request, in order
    \* the dashboard page (src/app/page.tsx)
    mounted,          \* useState, line 126
    weatherData,      \* useState, line 120
    loading,          \* useState, line 121
    error,            \* useState, line 122
    retryCount,       \* useState, line 128
    lastFetchedCity,  \* useState, line 129
    tempUnit,         \* useState, line 124
    hasGeolocation,   \* whether navigator.geolocation exists
    geoLookups,       \* getCurrentPosition calls whose callback is still due
    inflight,         \* requests to /api/weather that have not settled
    issued,           \* every request to /api/weather issued so far, in order
    attemptLog,       \* what the auto-load effect saw each time it started a load
    userActions       \* number of clicks and submits so far

proxyVars == <<apiKey, request, pc, pending, calls, weatherResponse, data, mapped,
               thrown, responses>>

uiVars == <<mounted, weatherData, loading, error, retryCount, lastFetchedCity,
            tempUnit, hasGeolocation, geoLookups, inflight, issued, attemptLog, userActions>>

vars == <<proxyVars, uiVars>>

-----------------------------------------------------------------------------
(* Bounds of the model *)

\* longest forecastday array the provider is made to send
MaxDays == 2
\* longest forecastday array handed to the mapping on its own
NormMaxDays == 8
\* longest alert description handed to the mapping on its own
MaxDescLen == 250
\* longest alert list the provider is made to send
MaxAlerts == 2
\* the clock of a pending outbound call stops being advanced past this
MaxPending == 16
\* most clicks and submits the user is made to do
MaxUserActions == 1
\* the loaded Celsius temperatures run from -MaxTemp to MaxTemp degrees
MaxTemp == 10

\* the timeout of an outbound call in seconds
TimeoutSecs == 15

\* line 146: the number of forecast days the provider is asked for
DaysRequested == 7

\* line 225: the number of characters kept of an alert's description
DescLimit == 200

\* page.tsx line 143: the auto-load effect gives up at this retryCount
MaxAutoRetries == 3

-----------------------------------------------------------------------------
(* JavaScript values *)

JsNull == [json |-> "null"]
JsUndefined == [json |-> "undefined"]
\* the empty object {}
Obj == [json |-> "object"]
\* a body that is not JSON: weatherResponse.json() rejects on it
NotJson == [json |-> "invalid"]
Str(s) == [json |-> "string", str |-> s]

Has(o, f) == f \in DOMAIN o

\* truthiness of a value that is null, undefined or a string
Truthy(v) == v.json = "string" /\ v.str # <<>>

RECURSIVE Flatten(_)
Flatten(ss) == IF ss = <<>> THEN <<>> ELSE Head(ss) \o Flatten(Tail(ss))

\* characters encodeURIComponent leaves alone (the ones of the model's alphabet)
Unreserved == {"a", "b", "0", "1", "5", ".", "-"}

EncodeChar(c) ==
    IF c \in Unreserved THEN <<c>>
    ELSE IF c = " " THEN <<"%", "2", "0">>
    ELSE IF c = "," THEN <<"%", "2", "C">>
    ELSE <<"%", "?", "?">>

encodeURIComponent(s) == Flatten([i \in 1..Len(s) |-> EncodeChar(s[i])])

\* the provider's decoding of the q parameter of the URL
RECURSIVE decodeURIComponent(_)
decodeURIComponent(s) ==
    IF s = <<>> THEN <<>>
    ELSE IF Head(s) = "%" /\ Len(s) >= 3
         THEN LET hex == <<s[2], s[3]>>
                  c == IF hex = <<"2", "0">> THEN " "
                       ELSE IF hex = <<"2", "C">> THEN ","
                       ELSE "?"
              IN  <<c>> \o decodeURIComponent(SubSeq(s, 4, Len(s)))
         ELSE <<Head(s)>> \o decodeURIComponent(Tail(s))

-----------------------------------------------------------------------------
(* Inputs: the environment and the inbound request *)

ApiKeys == {JsUndefined, Str(<<>>), Str(<<"k", "e", "y">>)}

CityParams == {JsNull, Str(<<>>), Str(<<"a", " ", "b">>)}
LatParams == {JsNull, Str(<<>>), Str(<<"5", "1", ".", "5">>)}
LonParams == {JsNull, Str(<<>>), Str(<<"-", "0", ".", "1">>)}

NoRequest == [json |-> "none"]

-----------------------------------------------------------------------------
(* Responses of the route *)

NotConfiguredBody ==
    [error |-> <<"Weather service is not configured. Please contact the administrator.">>]
BadRequestBody ==
    [error |-> <<"Please provide either a city name or coordinates">>]
InvalidDataBody ==
    [error |-> <<"Invalid weather data received from service">>]
TimedOutBody ==
    [error |-> <<"Request timed out. Please try again.">>]
NetworkErrorBody ==
    [error |-> <<"Network error. Please check your connection and try again.">>]
UnexpectedBody ==
    [error |-> <<"An unexpected error occurred while fetching weather data">>]

Response(status, body) == [status |-> status, body |-> body]

-----------------------------------------------------------------------------
(* The provider's payload *)

Chars_Sunny == <<"S", "u", "n", "n", "y">>
Chars_Rain == <<"R", "a", "i", "n">>
Time0500 == <<"2", "0", "2", "4", "-", "0", "6", "-", "0", "1", " ", "0", "5", ":", "0", "0">>
Time0600 == <<"2", "0", "2", "4", "-", "0", "6", "-", "0", "1", " ", "0", "6", ":", "0", "0">>

Hour0500 ==
    [time |-> Time0500, temp_c |-> 215, condition |-> [text |-> Chars_Sunny],
     humidity |-> 600, wind_kph |-> 126]
Hour0600 ==
    [time |-> Time0600, temp_c |-> -25, condition |-> [text |-> Chars_Rain],
     humidity |-> 710, wind_kph |-> 94]
\* an hour record without its time string
HourNoTime ==
    [temp_c |-> 215, condition |-> [text |-> Chars_Sunny],
     humidity |-> 600, wind_kph |-> 126]

\* the aggregate block of the i-th forecast day
DayBlock(i) ==
    [avgtemp_c |-> 204 + i, mintemp_c |-> 145 + i, maxtemp_c |-> 266 + i,
     condition |-> [text |-> IF i = 1 THEN Chars_Sunny ELSE Chars_Rain,
                    icon |-> <<"//cdn.weatherapi.com/icon.png">>]]
Astro == [sunrise |-> <<"05:10 AM">>, sunset |-> <<"08:45 PM">>]

JsArray(items) == [isArray |-> TRUE, items |-> items]
\* a truthy value that is not an array (an object)
NotArray == [isArray |-> FALSE]

DayKinds == {"full", "noHour", "hourNotArray", "noCondition", "hourNoTime"}

\* the i-th entry of forecastday, of the given kind
MkDay(kind, i) ==
    LET base == [date_epoch |-> 864000 * i, astro |-> Astro] IN
    CASE kind = "full" ->
            base @@ [day |-> DayBlock(i), hour |-> JsArray(<<Hour0500, Hour0600>>)]
      [] kind = "noHour" ->
            base @@ [day |-> DayBlock(i)]
      [] kind = "hourNotArray" ->
            base @@ [day |-> DayBlock(i), hour |-> NotArray]
      [] kind = "noCondition" ->
            base @@ [day |-> [avgtemp_c |-> 204, mintemp_c |-> 145, maxtemp_c |-> 266],
                     hour |-> JsArray(<<Hour0500>>)]
      [] kind = "hourNoTime" ->
            base @@ [day |-> DayBlock(i), hour |-> JsArray(<<Hour0500, HourNoTime>>)]

DayKindSeqs == UNION { [1..n -> DayKinds] : n \in 0..MaxDays }

\* the forecastday arrays the provider is made to send
ForecastDayArrays ==
    { [i \in 1..Len(ks) |-> MkDay(ks[i], i)] : ks \in DayKindSeqs }

AlertKinds == {"event", "headline", "bare"}

MkAlert(kind) ==
    CASE kind = "event" ->
            [event |-> <<"Flood Warning">>, headline |-> <<"Flood Warning issued">>,
             desc |-> <<"r", "i", "v", "e", "r">>, severity |-> <<"Severe">>]
      [] kind = "headline" ->
            [headline |-> <<"Heat Advisory issued">>, desc |-> <<>>]
      [] kind = "bare" ->
            [msgtype |-> <<"Alert">>]

AlertKindSeqs == UNION { [1..n -> AlertKinds] : n \in 0..MaxAlerts }

\* the values of data.alerts the provider is made to send
AlertsValues ==
    {Obj, Obj @@ [alert |-> NotArray]}
    \cup { Obj @@ [alert |-> JsArray([i \in 1..Len(ks) |-> MkAlert(ks[i])])] :
             ks \in AlertKindSeqs }

Location ==
    [name |-> <<"London">>, country |-> <<"United Kingdom">>,
     tz_id |-> <<"Europe/London">>, lat |-> 515, lon |-> -1]

Current ==
    [temp_c |-> 185, condition |-> [text |-> <<"P", "a", "r", "t", "l", "y">>],
     humidity |-> 640, wind_kph |-> 155, wind_degree |-> 2300, uv |-> 45,
     vis_km |-> 96, pressure_mb |-> 10130, feelslike_c |-> 179]
\* a current block without its condition block
CurrentNoCondition ==
    [temp_c |-> 185, humidity |-> 640, wind_kph |-> 155, wind_degree |-> 2300,
     uv |-> 45, vis_km |-> 96, pressure_mb |-> 10130, feelslike_c |-> 179]

FullForecast == [forecastday |-> JsArray(<<MkDay("full", 1), MkDay("full", 2)>>)]

\* payloads with all three sections, as varied as the mapping can tell apart
CompletePayloads ==
    { Obj @@ [location |-> Location, current |-> Current,
              forecast |-> [forecastday |-> JsArray(fd)]] : fd \in ForecastDayArrays }
    \cup
    { Obj @@ [location |-> Location, current |-> Current,
              forecast |-> [forecastday |-> JsArray(fd)], alerts |-> al] :
        fd \in ForecastDayArrays, al \in AlertsValues }
    \cup
    { Obj @@ [location |-> Location, current |-> CurrentNoCondition,
              forecast |-> FullForecast],
      Obj @@ [location |-> Location, current |-> Current,
              forecast |-> [forecastday |-> NotArray]] }

\* payloads lacking one or more of location, current, forecast.forecastday
IncompletePayloads ==
    { Obj,
      Obj @@ [current |-> Current, forecast |-> FullForecast],
      Obj @@ [location |-> Location, forecast |-> FullForecast],
      Obj @@ [location |-> Location, current |-> Current],
      Obj @@ [location |-> Location, current |-> Current, forecast |-> Obj],
      Obj @@ [location |-> Location] }

\* bodies the provider is made to send with a success status
SuccessBodies == CompletePayloads \cup IncompletePayloads \cup {JsNull, NotJson}

\* bodies the provider is made to send with a non-success status
ErrorBodies ==
    { NotJson, JsNull, Obj,
      Obj @@ [error |-> [code |-> 1006, message |-> <<"No matching location found.">>]],
      Obj @@ [error |-> [code |-> 1006, message |-> <<>>]],
      Obj @@ [error |-> [code |-> 1006]] }

\* statuses the provider is made to answer with
ProviderStatuses == {200, 400, 404, 500}

-----------------------------------------------------------------------------
(* The mapping of the provider payload, lines 169-254 *)

Min(a, b) == IF a < b THEN a ELSE b

\* a plausible slip of lines 179 and 194: the start index is counted from 1
Substring_StartFromOne(s, a, b) == SubSeq(s, Min(a, Len(s)), Min(b, Len(s)))

\* String.prototype.substring(a, b) for 0 <= a <= b
Substring(s, a, b) == SubSeq(s, Min(a, Len(s)) + 1, Min(b, Len(s)))

LowerChar(c) ==
    CASE c = "S" -> "s"
      [] c = "R" -> "r"
      [] c = "P" -> "p"
      [] OTHER -> c

toLowerCase(s) == [i \in 1..Len(s) |-> LowerChar(s[i])]

\* Math.round on tenths: to the nearest integer, halves towards +infinity
MathRound(x) == ((x + 5) \div 10) * 10

\* lines 178-184 and 193-199 throw a TypeError on this hour record
HourThrows(h) ==
    \/ ~Has(h, "time")
    \/ ~Has(h, "condition")
    \/ ~Has(h.condition, "text")

\* lines 178-184, 193-199: one entry of an hourly list
MapHour(h) ==
    [time |-> Substring(h.time, 11, 16),
     temp |-> MathRound(h.temp_c),
     condition |-> toLowerCase(h.condition.text),
     humidity |-> h.humidity,
     windSpeed |-> MathRound(h.wind_kph)]

\* the guard of lines 177 and 192
HourIsArray(day) == Has(day, "hour") /\ day.hour.isArray

HourlyThrows(day) ==
    HourIsArray(day) /\ \E i \in 1..Len(day.hour.items) : HourThrows(day.hour.items[i])

\* lines 176-185, 188-200: the hourly list of a day
HourlyOf(day) ==
    IF HourIsArray(day)
    THEN [i \in 1..Len(day.hour.items) |-> MapHour(day.hour.items[i])]
    ELSE <<>>

\* lines 201-208 and 213-219 throw a TypeError on this day record
DayThrows(day) ==
    \/ ~Has(day, "day")
    \/ ~Has(day.day, "condition")
    \/ ~Has(day.day.condition, "text")

\* a plausible slip of line 202: the summary's temp is taken from the maximum
DaySummary_TempFromMax(day) ==
    [temp |-> MathRound(day.day.maxtemp_c),
     min |-> MathRound(day.day.mintemp_c),
     max |-> MathRound(day.day.maxtemp_c),
     condition |-> toLowerCase(day.day.condition.text),
     description |-> day.day.condition.text,
     icon |-> day.day.condition.icon]

\* lines 201-208: tomorrow's summary
DaySummary(day) ==
    [temp |-> MathRound(day.day.avgtemp_c),
     min |-> MathRound(day.day.mintemp_c),
     max |-> MathRound(day.day.maxtemp_c),
     condition |-> toLowerCase(day.day.condition.text),
     description |-> day.day.condition.text,
     icon |-> day.day.condition.icon]

\* lines 212-220: one entry of the daily forecast
DailyEntry(day) ==
    [dt |-> day.date_epoch,
     temp |-> MathRound(day.day.avgtemp_c),
     min |-> MathRound(day.day.mintemp_c),
     max |-> MathRound(day.day.maxtemp_c),
     condition |-> toLowerCase(day.day.condition.text),
     description |-> day.day.condition.text,
     icon |-> day.day.condition.icon]

\* a plausible slip of lines 212-220: the days come out newest first
DailyForecast_Reversed(fd) == [i \in 1..Len(fd) |-> DailyEntry(fd[Len(fd) + 1 - i])]

\* lines 212-220: the daily forecast, one entry per forecast day
DailyForecast(fd) == [i \in 1..Len(fd) |-> DailyEntry(fd[i])]

\* line 173: data.alerts?.alert || []
SourceAlerts(d) ==
    IF Has(d, "alerts") /\ Has(d.alerts, "alert") THEN d.alerts.alert ELSE JsArray(<<>>)

\* a plausible slip of line 225: the ellipsis is added from 200 characters on
AlertDescription_AtLimit(alert) ==
    IF Has(alert, "desc")
    THEN Substring(alert.desc, 0, DescLimit)
         \o (IF Len(alert.desc) >= DescLimit THEN <<".", ".", ".">> ELSE <<>>)
    ELSE <<"u", "n", "d", "e", "f", "i", "n", "e", "d">>

\* line 225: an absent desc makes undefined + "", the string "undefined"
AlertDescription(alert) ==
    IF Has(alert, "desc")
    THEN Substring(alert.desc, 0, DescLimit)
         \o (IF Len(alert.desc) > DescLimit THEN <<".", ".", ".">> ELSE <<>>)
    ELSE <<"u", "n", "d", "e", "f", "i", "n", "e", "d">>

\* lines 223-227: one entry of the alerts list
MapAlert(alert) ==
    [title |-> IF Has(alert, "event") /\ alert.event # <<>> THEN alert.event
               ELSE IF Has(alert, "headline") /\ alert.headline # <<>> THEN alert.headline
               ELSE <<"Alert">>,
     description |-> AlertDescription(alert),
     severity |-> IF Has(alert, "severity") /\ alert.severity # <<>> THEN alert.severity
                  ELSE <<"moderate">>]

\* lines 223-227
MappedAlerts(d) ==
    [i \in 1..Len(SourceAlerts(d).items) |-> MapAlert(SourceAlerts(d).items[i])]

\* the mapping throws a TypeError on a payload that passed the check of line 165
NormalizeThrows(d) ==
    LET fd == d.forecast.forecastday IN
    \/ ~fd.isArray
    \/ fd.items = <<>>
    \/ HourlyThrows(fd.items[1])
    \/ Len(fd.items) > 1 /\ (HourlyThrows(fd.items[2]) \/ DayThrows(fd.items[2]))
    \/ \E i \in 1..Len(fd.items) : DayThrows(fd.items[i])
    \/ ~SourceAlerts(d).isArray
    \/ ~Has(d.current, "condition")
    \/ ~Has(fd.items[1], "astro")

\* a plausible slip of line 253: the list is passed on even when empty
AlertsProperty_Always(alerts) == [alerts |-> alerts]

\* line 253: the alerts property, which JSON drops when it is undefined
AlertsProperty(alerts) ==
    IF Len(alerts) > 0 THEN [alerts |-> alerts] ELSE [x \in {} |-> x]

\* lines 230-254: the body of the 200 response
FormattedResponse(d) ==
    LET fd == d.forecast.forecastday.items
        today == fd[1]
    IN  [city |-> d.location.name,
         country |-> d.location.country,
         temperature |-> MathRound(d.current.temp_c),
         condition |-> d.current.condition.text,
         description |-> d.current.condition.text,
         humidity |-> d.current.humidity,
         windSpeed |-> MathRound(d.current.wind_kph),
         windDirection |-> d.current.wind_degree,
         uvIndex |-> d.current.uv,
         visibility |-> MathRound(d.current.vis_km),
         pressure |-> d.current.pressure_mb,
         feelsLike |-> MathRound(d.current.feelslike_c),
         high |-> MathRound(today.day.maxtemp_c),
         low |-> MathRound(today.day.mintemp_c),
         sunrise |-> today.astro.sunrise,
         sunset |-> today.astro.sunset,
         timezone |-> d.location.tz_id,
         coordinates |-> [lat |-> d.location.lat, lon |-> d.location.lon],
         hourlyForecast |-> HourlyOf(today),
         tomorrowHourlyForecast |-> IF Len(fd) > 1 THEN HourlyOf(fd[2]) ELSE <<>>,
         tomorrowDaySummary |-> IF Len(fd) > 1 THEN DaySummary(fd[2]) ELSE JsNull,
         dailyForecast |-> DailyForecast(fd)]
        @@ AlertsProperty(MappedAlerts(d))

-----------------------------------------------------------------------------
(* Faults and the catch clause *)

Error(name, message) == [json |-> "error", name |-> name, message |-> message]

\* what fetch rejects with when the transport fails (undici)
FetchFailed == Error("TypeError", <<"fetch", " failed">>)
\* what weatherResponse.json() rejects with on a body that is not JSON
JsonSyntaxError == Error("SyntaxError", <<"Unexpected token < in JSON at position 0">>)
\* a property read on null or undefined
PropertyTypeError == Error("TypeError", <<"Cannot read properties of undefined">>)

\* String.prototype.includes on a string kept as pieces
Includes(message, piece) == \E i \in 1..Len(message) : message[i] = piece

\* a plausible slip of lines 268-273: the transport branch is missing
CatchResponse_NoNetworkBranch(err) ==
    IF err.json = "error" /\ err.name = "AbortError"
    THEN Response(408, TimedOutBody)
    ELSE Response(500, UnexpectedBody)

\* lines 263-276: the response the catch clause returns for a caught fault
CatchResponse(err) ==
    IF err.json = "error" /\ err.name = "AbortError"
    THEN Response(408, TimedOutBody)
    ELSE IF err.json = "error" /\ Includes(err.message, "fetch")
    THEN Response(503, NetworkErrorBody)
    ELSE Response(500, UnexpectedBody)

-----------------------------------------------------------------------------
(* The handler up to the outbound call *)

\* a plausible slip of line 128: only an undefined variable counts as unset
Configured_UndefinedOnly(key) == key # JsUndefined

\* line 128: the credential check, !apiKey
Configured(key) == Truthy(key)

\* a plausible slip of line 138: the coordinates in the wrong order
QueryParam_LonLat(city, lat, lon) ==
    IF Truthy(lat) /\ Truthy(lon) THEN Str(lon.str \o <<",">> \o lat.str)
    ELSE IF Truthy(city) THEN Str(city.str)
    ELSE JsNull

\* a plausible slip of line 137: a latitude alone is taken for coordinates
QueryParam_LatAlone(city, lat, lon) ==
    IF Truthy(lat)
    THEN Str(lat.str \o <<",">> \o (IF lon = JsNull THEN <<"null">> ELSE lon.str))
    ELSE IF Truthy(city) THEN Str(city.str)
    ELSE JsNull

\* lines 136-143: the location query, or null when the request is refused
QueryParam(city, lat, lon) ==
    IF Truthy(lat) /\ Truthy(lon) THEN Str(lat.str \o <<",">> \o lon.str)
    ELSE IF Truthy(city) THEN Str(city.str)
    ELSE JsNull

\* line 146: the parts of the provider URL
ProviderCall(key, queryParam) ==
    [key |-> key.str, q |-> encodeURIComponent(queryParam.str),
     days |-> DaysRequested, aqi |-> "no", alerts |-> "yes"]

\* page.tsx lines 120-131: the page's state at its first render
PageLoaded ==
    /\ mounted = FALSE
    /\ weatherData = JsNull
    /\ loading = FALSE
    /\ error = JsNull
    /\ retryCount = 0
    /\ lastFetchedCity = <<>>
    /\ tempUnit = "C"
    /\ geoLookups = {}
    /\ inflight = {}
    /\ issued = <<>>
    /\ attemptLog = <<>>
    /\ userActions = 0

Init ==
    /\ PageLoaded
    /\ hasGeolocation = TRUE
    /\ apiKey \in ApiKeys
    /\ request = NoRequest
    /\ pc = "idle"
    /\ pending = 0
    /\ calls = <<>>
    /\ weatherResponse = JsUndefined
    /\ data = JsUndefined
    /\ mapped = FALSE
    /\ thrown = JsUndefined
    /\ responses = <<>>

\* lines 119-153: an inbound request arrives and runs to its first await
ReceiveRequest(city, lat, lon) ==
    /\ pc = "idle"
    /\ request' = [json |-> "request", city |-> city, lat |-> lat, lon |-> lon]
    /\ IF ~Configured(apiKey)
       THEN /\ responses' = Append(responses, Response(500, NotConfiguredBody))
            /\ pc' = "done"
            /\ calls' = calls
       ELSE IF QueryParam(city, lat, lon) = JsNull
       THEN /\ responses' = Append(responses, Response(400, BadRequestBody))
            /\ pc' = "done"
            /\ calls' = calls
       ELSE /\ calls' = Append(calls, ProviderCall(apiKey, QueryParam(city, lat, lon)))
            /\ pc' = "fetch"
            /\ responses' = responses
    /\ UNCHANGED <<apiKey, pending, weatherResponse, data, mapped, thrown>>
    /\ UNCHANGED uiVars

\* the clock: another second passes with the fetch of line 149 still pending
\* (the call passes fetch no signal and arms no timer)
Tick ==
    /\ pc = "fetch"
    /\ pending < MaxPending
    /\ pending' = pending + 1
    /\ UNCHANGED <<apiKey, request, pc, calls, weatherResponse, data, mapped,
                   thrown, responses>>
    /\ UNCHANGED uiVars

\* line 149: fetch rejects (transport failure); the catch clause answers
FetchRejected ==
    /\ pc = "fetch"
    /\ thrown' = FetchFailed
    /\ responses' = Append(responses, CatchResponse(FetchFailed))
    /\ pc' = "done"
    /\ pending' = 0
    /\ UNCHANGED <<apiKey, request, calls, weatherResponse, data, mapped>>
    /\ UNCHANGED uiVars

\* line 149: fetch fulfils with the provider's status line
FetchFulfilled(status) ==
    /\ pc = "fetch"
    /\ weatherResponse' = [json |-> "response", status |-> status,
                           ok |-> status \in 200..299]
    /\ pc' = "json"
    /\ pending' = 0
    /\ UNCHANGED <<apiKey, request, calls, data, mapped, thrown, responses>>
    /\ UNCHANGED uiVars

\* lines 159: errorData.error?.message || "Unknown error"
ErrorMessage(errorData) ==
    IF /\ Has(errorData, "error")
       /\ Has(errorData.error, "message")
       /\ errorData.error.message # <<>>
    THEN errorData.error.message
    ELSE <<"Unknown error">>

\* line 165: the structural check
StructurallyValid(d) ==
    /\ Has(d, "location")
    /\ Has(d, "current")
    /\ Has(d, "forecast")
    /\ Has(d.forecast, "forecastday")

Outcome(response, fault, didMap) ==
    [response |-> response, thrown |-> fault, mapped |-> didMap]

\* lines 155-162: the provider answered with a non-success status
UpstreamErrorOutcome(status, body) ==
    LET errorData == IF body = NotJson THEN Obj ELSE body IN
    IF errorData = JsNull
    THEN Outcome(CatchResponse(PropertyTypeError), PropertyTypeError, FALSE)
    ELSE Outcome(Response(status,
                          [error |-> <<"Weather service error: ">>
                                       \o ErrorMessage(errorData)]),
                 JsUndefined, FALSE)

\* lines 164-262: the provider answered with a success status
SuccessOutcome(body) ==
    IF body = NotJson
    THEN Outcome(CatchResponse(JsonSyntaxError), JsonSyntaxError, FALSE)
    ELSE IF body = JsNull
    THEN Outcome(CatchResponse(PropertyTypeError), PropertyTypeError, FALSE)
    ELSE IF ~StructurallyValid(body)
    THEN Outcome(Response(502, InvalidDataBody), JsUndefined, FALSE)
    ELSE IF NormalizeThrows(body)
    THEN Outcome(CatchResponse(PropertyTypeError), PropertyTypeError, TRUE)
    ELSE Outcome(Response(200, FormattedResponse(body)), JsUndefined, TRUE)

\* lines 155-262: the body arrives and the handler runs to its return
JsonSettled(body) ==
    /\ pc = "json"
    /\ body \in (IF weatherResponse.ok THEN SuccessBodies ELSE ErrorBodies)
    /\ data' = body
    /\ LET out == IF weatherResponse.ok
                  THEN SuccessOutcome(body)
                  ELSE UpstreamErrorOutcome(weatherResponse.status, body)
       IN  /\ responses' = Append(responses, out.response)
           /\ thrown' = out.thrown
           /\ mapped' = out.mapped
    /\ pc' = "done"
    /\ UNCHANGED <<apiKey, request, pending, calls, weatherResponse>>
    /\ UNCHANGED uiVars

Next ==
    \/ \E city \in CityParams, lat \in LatParams, lon \in LonParams :
          ReceiveRequest(city, lat, lon)
    \/ Tick
    \/ FetchRejected
    \/ \E status \in ProviderStatuses : FetchFulfilled(status)
    \/ \E body \in SuccessBodies \cup ErrorBodies : JsonSettled(body)

Spec == Init /\ [][Next]_vars

-----------------------------------------------------------------------------
(* The mapping on its own: lines 164-262 applied to a wider range of payloads *)

Digits == <<"0", "1", "2", "3", "4", "5", "6", "7", "8", "9">>

\* a description of n characters, no two neighbours alike
DescOfLen(n) == [i \in 1..n |-> Digits[(i % 10) + 1]]

DescLengths == {0, 1, DescLimit - 1, DescLimit, DescLimit + 1, MaxDescLen}

NormAlert(n) == [event |-> <<"Flood Warning">>, desc |-> DescOfLen(n)]

\* the values of data.alerts handed to the mapping
NormAlertsValues ==
    { Obj @@ [alert |-> JsArray(<<>>)],
      Obj @@ [alert |-> JsArray(<<MkAlert("bare")>>)],
      Obj @@ [alert |-> JsArray(<<MkAlert("headline"), NormAlert(MaxDescLen)>>)] }
    \cup { Obj @@ [alert |-> JsArray(<<NormAlert(n)>>)] : n \in DescLengths }

NormHourKinds == {"full", "noHour", "hourNotArray", "hourEmpty"}

\* the i-th entry of forecastday, with the given kind of hour array
MkNormDay(kind, i) ==
    IF kind = "hourEmpty"
    THEN [date_epoch |-> 864000 * i, astro |-> Astro, day |-> DayBlock(i),
          hour |-> JsArray(<<>>)]
    ELSE MkDay(kind, i)

\* forecastday arrays of every length, today and tomorrow of every hour kind
NormForecastDayArrays ==
    { [i \in 1..n |-> MkNormDay(IF i = 1 THEN k1 ELSE IF i = 2 THEN k2 ELSE "full", i)] :
        n \in 0..NormMaxDays, k1 \in NormHourKinds, k2 \in NormHourKinds }

\* a current block whose percentage is fractional
CurrentFractional ==
    [temp_c |-> 185, condition |-> [text |-> <<"P", "a", "r", "t", "l", "y">>],
     humidity |-> 645, wind_kph |-> 155, wind_degree |-> 2300, uv |-> 40,
     vis_km |-> 96, pressure_mb |-> 10130, feelslike_c |-> 179]

\* the payloads handed to the mapping: all pass the check of line 165
NormPayloads ==
    { Obj @@ [location |-> Location, current |-> cur,
              forecast |-> [forecastday |-> JsArray(fd)]] :
        cur \in {Current}, fd \in NormForecastDayArrays }
    \cup
    { Obj @@ [location |-> Location, current |-> cur,
              forecast |-> [forecastday |-> JsArray(fd)], alerts |-> al] :
        cur \in {CurrentFractional}, fd \in NormForecastDayArrays,
        al \in NormAlertsValues }

\* the provider has answered 200 and its body is about to be decoded
NormInit ==
    /\ PageLoaded
    /\ hasGeolocation = TRUE
    /\ apiKey = Str(<<"k", "e", "y">>)
    /\ request = [json |-> "request", city |-> Str(<<"a", " ", "b">>),
                  lat |-> JsNull, lon |-> JsNull]
    /\ pc = "json"
    /\ pending = 0
    /\ calls = <<ProviderCall(apiKey, QueryParam(request.city, request.lat, request.lon))>>
    /\ weatherResponse = [json |-> "response", status |-> 200, ok |-> TRUE]
    /\ data \in NormPayloads
    /\ mapped = FALSE
    /\ thrown = JsUndefined
    /\ responses = <<>>

\* lines 164-262 on the body the provider sent
NormalizeBody ==
    /\ pc = "json"
    /\ LET out == SuccessOutcome(data)
       IN  /\ responses' = Append(responses, out.response)
           /\ thrown' = out.thrown
           /\ mapped' = out.mapped
    /\ pc' = "done"
    /\ UNCHANGED <<apiKey, request, pending, calls, weatherResponse, data>>
    /\ UNCHANGED uiVars

NormNext == NormalizeBody

SpecNorm == NormInit /\ [][NormNext]_vars

-----------------------------------------------------------------------------
(* The dashboard page, src/app/page.tsx.  State updates made in one handler
   or one settled request are committed together (React 18 batches them), and
   the effects whose dependencies changed run after that commit, before the
   next event.  A callback keeps the state of the render that created it. *)

London == <<"L", "o", "n", "d", "o", "n">>
Paris == <<"P", "a", "r", "i", "s">>
\* the place the proxy names in answer to a coordinate request
Here == <<"H", "e", "r", "e">>

\* what the user may have typed in the search box
SearchInputs == {London, Paris, <<" ", "P", "a", "r", "i", "s", " ">>, <<"P", " ">>}

RECURSIVE TrimStart(_)
TrimStart(s) == IF s # <<>> /\ Head(s) = " " THEN TrimStart(Tail(s)) ELSE s

RECURSIVE TrimEnd(_)
TrimEnd(s) ==
    IF s # <<>> /\ s[Len(s)] = " " THEN TrimEnd(SubSeq(s, 1, Len(s) - 1)) ELSE s

\* String.prototype.trim
Trim(s) == TrimEnd(TrimStart(s))

\* the page's state as one value
Page ==
    [mounted |-> mounted, weatherData |-> weatherData, loading |-> loading,
     error |-> error, retryCount |-> retryCount,
     lastFetchedCity |-> lastFetchedCity, geoLookups |-> geoLookups,
     inflight |-> inflight, issued |-> issued, attemptLog |-> attemptLog,
     userActions |-> userActions]

\* the render that follows a batch of updates
Commit(u) ==
    /\ mounted' = u.mounted
    /\ weatherData' = u.weatherData
    /\ loading' = u.loading
    /\ error' = u.error
    /\ retryCount' = u.retryCount
    /\ lastFetchedCity' = u.lastFetchedCity
    /\ geoLookups' = u.geoLookups
    /\ inflight' = u.inflight
    /\ issued' = u.issued
    /\ attemptLog' = u.attemptLog
    /\ userActions' = u.userActions
    /\ UNCHANGED <<hasGeolocation, tempUnit>>

\* what fetchWeather and fetchWeatherByCoords of one render have captured
\* (the dependency lists of lines 231 and 290)
Closure(u) == [loading |-> u.loading, lastFetchedCity |-> u.lastFetchedCity]

\* no response has arrived yet
NoAnswer == [type |-> "none"]

\* lines 176-183 and 243-250: the abort timer is armed and the request leaves;
\* age counts the seconds since then, phase is the await the function is at
\* ("fetch" at lines 178 and 245, "json" at lines 188, 192, 255 and 259)
StartRequest(u, fn, city) ==
    [u EXCEPT !.inflight = @ \cup {[id |-> Len(u.issued) + 1, fn |-> fn, city |-> city,
                                    age |-> 0, phase |-> "fetch", answer |-> NoAnswer]},
              !.issued = Append(@, [fn |-> fn, city |-> city])]

\* lines 167-183, up to the await
fetchWeather(u, cl, city) ==
    IF cl.loading \/ city = cl.lastFetchedCity
    THEN u
    ELSE StartRequest([u EXCEPT !.loading = TRUE, !.error = JsNull,
                                !.lastFetchedCity = city],
                      "fetchWeather", city)

\* lines 235-250, up to the await
fetchWeatherByCoords(u, cl) ==
    IF cl.loading
    THEN u
    ELSE StartRequest([u EXCEPT !.loading = TRUE, !.error = JsNull],
                      "fetchWeatherByCoords", <<>>)

\* a plausible slip of line 143: the cap is compared with <=
AutoLoadGuard_Inclusive(u) ==
    u.mounted /\ u.weatherData = JsNull /\ u.retryCount <= MaxAutoRetries

\* line 143
AutoLoadGuard(u) ==
    u.mounted /\ u.weatherData = JsNull /\ u.retryCount < MaxAutoRetries

\* lines 141-163: the auto-load effect, run in the render whose state is u
AutoLoadEffect(u) ==
    IF ~AutoLoadGuard(u)
    THEN u
    ELSE LET v == [u EXCEPT !.attemptLog =
                       Append(@, [retryCount |-> u.retryCount,
                                  hadData |-> u.weatherData # JsNull,
                                  userActions |-> u.userActions])]
         IN  IF hasGeolocation
             THEN [v EXCEPT !.geoLookups =
                       @ \cup {[id |-> Len(v.attemptLog), closure |-> Closure(u)]}]
             ELSE fetchWeather(v, Closure(u), London)

\* line 164: the effect runs again only when one of its dependencies changed
Rerender(old, new) ==
    IF <<old.mounted, old.weatherData, old.retryCount>>
         # <<new.mounted, new.weatherData, new.retryCount>>
    THEN AutoLoadEffect(new)
    ELSE new

\* lines 134-139 (the clock of the header is left out)
Mount ==
    /\ ~mounted
    /\ Commit(Rerender(Page, [Page EXCEPT !.mounted = TRUE]))
    /\ UNCHANGED proxyVars

\* lines 146-148: the position arrives
GeoSuccess ==
    /\ \E g \in geoLookups :
         Commit(Rerender(Page,
             fetchWeatherByCoords([Page EXCEPT !.geoLookups = @ \ {g}], g.closure)))
    /\ UNCHANGED proxyVars

\* lines 149-153: the position is refused, unavailable or late
GeoError ==
    /\ \E g \in geoLookups :
         Commit(Rerender(Page,
             fetchWeather([Page EXCEPT !.geoLookups = @ \ {g}], g.closure, London)))
    /\ UNCHANGED proxyVars

\* what the page's fetch may come back with
WeatherOf(city) == [json |-> "object", city |-> city, temperature |-> 180]
NoCityData == [json |-> "object", temperature |-> 180]
ErrorData(message) == [json |-> "object", error |-> message]
NotFoundMessage == <<"Weather service error: No matching location found.">>
FailedToFetch == Error("TypeError", <<"Failed to ", "fetch">>)
Aborted == Error("AbortError", <<"The user aborted a request.">>)
Fulfilled(status, body) ==
    [type |-> "fulfilled", status |-> status,
     ok |-> (status >= 200 /\ status <= 299), body |-> body]
Rejected(err) == [type |-> "rejected", err |-> err]

Answers(r) ==
    {Fulfilled(200, WeatherOf(IF r.city = <<>> THEN Here ELSE r.city)),
     Fulfilled(200, NoCityData),
     Fulfilled(400, ErrorData(NotFoundMessage)),
     Fulfilled(404, NotJson),
     Fulfilled(500, NotJson),
     Rejected(FailedToFetch),
     Rejected(Aborted)}

NoError == [json |-> "none"]

\* lines 187-200 and 254-267: what the try block throws on an answer
ThrownOn(ans) ==
    IF ans.type = "rejected" THEN ans.err
    ELSE IF ~ans.ok
    THEN IF ans.body # NotJson /\ Has(ans.body, "error") /\ ans.body.error # <<>>
         THEN Error("Error", ans.body.error)
         ELSE Error("Error", <<"HTTP ", IF ans.status = 404 THEN "404" ELSE "5xx",
                               ": Failed to ", "fetch", " weather data">>)
    ELSE IF ans.body = NotJson
    THEN Error("SyntaxError", <<"Unexpected token < in JSON at position 0">>)
    ELSE IF Has(ans.body, "error") /\ ans.body.error # <<>>
    THEN Error("Error", ans.body.error)
    ELSE IF ~Has(ans.body, "city") \/ ans.body.city = <<>>
            \/ ~Has(ans.body, "temperature")
    THEN Error("Error", <<"Invalid weather data received from server">>)
    ELSE NoError

TimedOutText == <<"Request timed out. Please try again.">>

\* lines 208-224 and 275-283: the message shown for a caught error
ErrorText(fn, city, err) ==
    IF err.name = "AbortError" THEN TimedOutText
    ELSE IF fn = "fetchWeatherByCoords"
    THEN (IF err.message # <<>> THEN err.message ELSE <<"Failed to fetch weather data">>)
    ELSE IF Includes(err.message, "404")
    THEN <<"City \"">> \o city \o <<"\" not found. Please check the spelling and try again.">>
    ELSE IF Includes(err.message, "401")
    THEN <<"API authentication failed. Please check the API configuration.">>
    ELSE IF Includes(err.message, "429")
    THEN <<"Too many requests. Please wait a moment and try again.">>
    ELSE IF Includes(err.message, "network") \/ Includes(err.message, "fetch")
    THEN <<"Network error. Please check your internet connection and try again.">>
    ELSE IF err.message # <<>> THEN err.message
    ELSE <<"Failed to fetch weather data">>

\* a plausible slip of lines 205-226: the catch block also clears the forecast
Settled_ClearsForecast(u, r, ans) ==
    LET err == ThrownOn(ans)
        w == [u EXCEPT !.inflight = @ \ {r}]
    IN  IF err = NoError
        THEN [w EXCEPT !.weatherData = ans.body, !.retryCount = 0,
                       !.error = JsNull, !.loading = FALSE]
        ELSE [w EXCEPT !.weatherData = JsNull,
                       !.error = Str(ErrorText(r.fn, r.city, err)),
                       !.retryCount = @ + 1, !.loading = FALSE]

\* lines 185-229 and 252-288: the rest of the function, after the await
Settled(u, r, ans) ==
    LET err == ThrownOn(ans)
        w == [u EXCEPT !.inflight = @ \ {r}]
    IN  IF err = NoError
        THEN [w EXCEPT !.weatherData = ans.body, !.retryCount = 0,
                       !.error = JsNull, !.loading = FALSE]
        ELSE [w EXCEPT !.error = Str(ErrorText(r.fn, r.city, err)),
                       !.retryCount = @ + 1, !.loading = FALSE]

\* a request runs from its fetch to its finally block, time left out
RequestSettles ==
    /\ \E r \in inflight : \E ans \in Answers(r) :
         Commit(Rerender(Page, Settled(Page, r, ans)))
    /\ UNCHANGED proxyVars

\* one more click or submit
Acted(u) == [u EXCEPT !.userActions = @ + 1]

\* lines 307-315, behind the Retry button of lines 561-571
handleRetry ==
    /\ mounted /\ error # JsNull
    /\ userActions < MaxUserActions
    /\ Commit(Rerender(Page,
           fetchWeather(Acted([Page EXCEPT !.error = JsNull, !.retryCount = 0]),
                        Closure(Page),
                        IF lastFetchedCity # <<>> THEN lastFetchedCity ELSE London)))
    /\ UNCHANGED proxyVars

ValidationText == <<"Please enter a valid city name (at least 2 characters)">>

\* lines 293-305, behind the form of lines 906-925
handleSearch(searchCity) ==
    /\ mounted /\ ~loading
    /\ userActions < MaxUserActions
    /\ LET city == Trim(searchCity)
       IN  /\ city # <<>>
           /\ Commit(Rerender(Page,
                  IF Len(city) >= 2
                  THEN fetchWeather(Acted(Page), Closure(Page), city)
                  ELSE [Acted(Page) EXCEPT !.error = Str(ValidationText)]))
    /\ UNCHANGED proxyVars

\* lines 837-845: the "Load Default Location" button
LoadDefault ==
    /\ mounted /\ ~loading /\ weatherData = JsNull
    /\ userActions < MaxUserActions
    /\ Commit(Rerender(Page, fetchWeather(Acted(Page), Closure(Page), London)))
    /\ UNCHANGED proxyVars

\* the page is opened in a browser with or without navigator.geolocation
UIInit ==
    /\ PageLoaded
    /\ hasGeolocation \in BOOLEAN
    /\ apiKey = Str(<<"k", "e", "y">>)
    /\ request = NoRequest
    /\ pc = "idle"
    /\ pending = 0
    /\ calls = <<>>
    /\ weatherResponse = JsUndefined
    /\ data = JsUndefined
    /\ mapped = FALSE
    /\ thrown = JsUndefined
    /\ responses = <<>>

UINext ==
    \/ Mount
    \/ GeoSuccess
    \/ GeoError
    \/ RequestSettles
    \/ handleRetry
    \/ \E searchCity \in SearchInputs : handleSearch(searchCity)
    \/ LoadDefault

SpecUI == UIInit /\ [][UINext]_vars

-----------------------------------------------------------------------------
(* The automatic load with its clock: a request is followed second by second
   through its two awaits, fetch (lines 178, 245) and response.json()
   (lines 188, 192, 255, 259). *)

\* a second passes; the timer of line 176 is due at TimeoutSecs and runs
\* before more time passes
TickSecond ==
    /\ inflight # {}
    /\ \A r \in inflight :
         /\ r.age < MaxPending
         /\ r.phase = "fetch" => r.age < TimeoutSecs
    /\ inflight' = {[r EXCEPT !.age = @ + 1] : r \in inflight}
    /\ UNCHANGED <<mounted, weatherData, loading, error, retryCount, lastFetchedCity,
                   tempUnit, hasGeolocation, geoLookups, issued, attemptLog,
                   userActions>>
    /\ UNCHANGED proxyVars

\* lines 176 and 243: the timer runs controller.abort() and fetch rejects
TimerFires ==
    /\ \E r \in inflight :
         /\ r.phase = "fetch" /\ r.age >= TimeoutSecs
         /\ Commit(Rerender(Page, Settled(Page, r, Rejected(Aborted))))
    /\ UNCHANGED proxyVars

\* lines 178-185 and 245-252: fetch resolves with the response's status and
\* headers and the timer is cleared; the body is still to be read
ResponseArrives ==
    /\ \E r \in inflight : \E ans \in Answers(r) :
         /\ r.phase = "fetch" /\ ans.type = "fulfilled"
         /\ inflight' = (inflight \ {r}) \cup {[r EXCEPT !.phase = "json", !.answer = ans]}
    /\ UNCHANGED <<mounted, weatherData, loading, error, retryCount, lastFetchedCity,
                   tempUnit, hasGeolocation, geoLookups, issued, attemptLog,
                   userActions>>
    /\ UNCHANGED proxyVars

\* lines 178 and 245: fetch rejects because the transport failed
FetchRejects ==
    /\ \E r \in inflight :
         /\ r.phase = "fetch"
         /\ Commit(Rerender(Page, Settled(Page, r, Rejected(FailedToFetch))))
    /\ UNCHANGED proxyVars

\* lines 187-229 and 254-288: response.json() settles and the function ends
BodyArrives ==
    /\ \E r \in inflight :
         /\ r.phase = "json"
         /\ Commit(Rerender(Page, Settled(Page, r, r.answer)))
    /\ UNCHANGED proxyVars

ClockNext ==
    \/ Mount
    \/ GeoSuccess
    \/ GeoError
    \/ TickSecond
    \/ TimerFires
    \/ ResponseArrives
    \/ FetchRejects
    \/ BodyArrives

SpecClock == UIInit /\ [][ClockNext]_vars

-----------------------------------------------------------------------------
(* The temperature unit toggle.  Temperatures are kept in tenths of a degree,
   as elsewhere: 210 is 21 degrees. *)

\* lines 319-320 of page.tsx, 413 of page.tsx and 297-299 of the chart:
\* Math.round((temp * 9) / 5 + 32)
Fahrenheit(temp) == MathRound((temp * 9) \div 5 + 320)

\* page.tsx lines 317-325
convertTemp(unit, temp) == IF unit = "F" THEN Fahrenheit(temp) ELSE MathRound(temp)

\* page.tsx lines 409-417: the data handed to the chart
chartData(unit, wd) ==
    IF wd # JsNull /\ Has(wd, "hourlyForecast")
    THEN [i \in 1..Len(wd.hourlyForecast) |->
             [wd.hourlyForecast[i] EXCEPT
                 !.temp = IF unit = "F" THEN Fahrenheit(@) ELSE @]]
    ELSE <<>>

\* lines 295-307 of the chart component: the points it draws
WeatherChart(chartInput, unit) ==
    [i \in 1..Len(chartInput) |->
        [time |-> chartInput[i].time,
         temperature |-> convertTemp(unit, chartInput[i].temp),
         humidity |-> chartInput[i].humidity]]

\* page.tsx line 633: the current temperature on the dashboard
ShownTemperature == convertTemp(tempUnit, weatherData.temperature)
\* page.tsx line 670: the temperatures of the hourly strip
ShownHourly ==
    [i \in 1..Len(weatherData.hourlyForecast) |->
        convertTemp(tempUnit, weatherData.hourlyForecast[i].temp)]
\* page.tsx line 685: the chart as rendered
ShownChart == WeatherChart(chartData(tempUnit, weatherData), tempUnit)

\* a forecast as the proxy returns it, with whole temperatures
LoadedWeather(c, h) ==
    [json |-> "object", city |-> London, temperature |-> 10 * c,
     hourlyForecast |->
        <<[time |-> <<"0", "5", ":", "0", "0">>, temp |-> 10 * h,
           condition |-> toLowerCase(Chars_Sunny), humidity |-> 600,
           windSpeed |-> 130]>>]

\* the page after its first load, London fetched in a browser without
\* geolocation
TempInit ==
    /\ mounted = TRUE
    /\ \E c, h \in -MaxTemp..MaxTemp : weatherData = LoadedWeather(c, h)
    /\ loading = FALSE
    /\ error = JsNull
    /\ retryCount = 0
    /\ lastFetchedCity = London
    /\ tempUnit = "C"
    /\ hasGeolocation = FALSE
    /\ geoLookups = {}
    /\ inflight = {}
    /\ issued = <<[fn |-> "fetchWeather", city |-> London]>>
    /\ attemptLog = <<[retryCount |-> 0, hadData |-> FALSE, userActions |-> 0]>>
    /\ userActions = 0
    /\ apiKey = Str(<<"k", "e", "y">>)
    /\ request = NoRequest
    /\ pc = "idle"
    /\ pending = 0
    /\ calls = <<>>
    /\ weatherResponse = JsUndefined
    /\ data = JsUndefined
    /\ mapped = FALSE
    /\ thrown = JsUndefined
    /\ responses = <<>>

\* page.tsx lines 529-541 and 608-620: one of the unit buttons is clicked
setTempUnit ==
    /\ mounted
    /\ \E unit \in {"C", "F"} : tempUnit' = unit
    /\ UNCHANGED <<mounted, weatherData, loading, error, retryCount, lastFetchedCity,
                   hasGeolocation, geoLookups, inflight, issued, attemptLog,
                   userActions>>
    /\ UNCHANGED proxyVars

TempNext == setTempUnit

SpecTemp == TempInit /\ [][TempNext]_vars

-----------------------------------------------------------------------------
(* What the properties below talk about *)

Received == request # NoRequest
Done == pc = "done"
Unconfigured == apiKey \in {JsUndefined, Str(<<>>)}

\* a parameter that is supplied and not empty
Supplied(v) == v.json = "string" /\ v.str # <<>>

CityOnly == Supplied(request.city) /\ request.lat = JsNull /\ request.lon = JsNull
CoordsOnly == request.city = JsNull /\ Supplied(request.lat) /\ Supplied(request.lon)
MixedInput == Supplied(request.city) /\ Supplied(request.lat) /\ Supplied(request.lon)
NoLocation == ~Supplied(request.city) /\ ~(Supplied(request.lat) /\ Supplied(request.lon))

\* the provider answered the outbound call and the handler has returned
AnsweredWith(ok) == Done /\ weatherResponse.json = "response" /\ weatherResponse.ok = ok

-----------------------------------------------------------------------------
(* C1 .. C10: the proxy route *)

\* C1: while no provider credential is configured, no outbound call is ever
\* issued, and every request handled, whatever its parameters, is answered by
\* exactly the 500 'Weather service is not configured' response.
C1_UnconfiguredNeverCalls ==
    Unconfigured =>
        /\ calls = <<>>
        /\ Received => Done /\ responses = <<Response(500, NotConfiguredBody)>>

\* a well-formed city request handled without a credential
C1_Witness ==
    /\ Unconfigured
    /\ Received
    /\ CityOnly
    /\ Done
    /\ apiKey = Str(<<>>)

\* C2: with a credential configured and a city-only or coordinate-only input,
\* exactly one outbound call exists from the moment the handler first awaits
\* until after it has returned, whatever the outcome, and the location query
\* the provider decodes from it is the raw city, respectively "lat,lon".
C2_ExactlyOneCall ==
    (Received /\ ~Unconfigured /\ (CityOnly \/ CoordsOnly)) =>
        /\ Len(calls) = 1
        /\ CityOnly => decodeURIComponent(calls[1].q) = request.city.str
        /\ CoordsOnly =>
              decodeURIComponent(calls[1].q)
                  = request.lat.str \o <<",">> \o request.lon.str

\* a city with a space in it, whose request ended in a thrown fault
C2_Witness ==
    /\ Done
    /\ ~Unconfigured
    /\ CityOnly
    /\ calls[1].q # request.city.str
    /\ thrown # JsUndefined
    /\ Len(calls) = 1

\* C3 as stated: every request that supplies neither a city nor both lat and
\* lon is answered 400 with the 'Please provide ...' body and issues no call.
C3_Original ==
    (Received /\ NoLocation) =>
        /\ calls = <<>>
        /\ responses = <<Response(400, BadRequestBody)>>

\* C3 amended: every request handled while a credential is configured that
\* supplies neither a city nor both lat and lon is answered 400 with the
\* 'Please provide ...' body and issues no call (without a credential the
\* answer is the 500 of C1).
C3_BadRequest ==
    (Received /\ ~Unconfigured /\ NoLocation) =>
        /\ Done
        /\ calls = <<>>
        /\ responses = <<Response(400, BadRequestBody)>>

\* a latitude without a longitude and no city, with a credential configured
C3_Witness ==
    /\ Received
    /\ ~Unconfigured
    /\ NoLocation
    /\ Supplied(request.lat)
    /\ Done

\* C4: a request with a credential configured that supplies a city together
\* with both lat and lon issues no outbound call and is answered 400.
C4_MixedRefused ==
    (Received /\ ~Unconfigured /\ MixedInput) =>
        /\ calls = <<>>
        /\ Len(responses) = 1
        /\ responses[1].status = 400

\* C5: when the provider answers with a non-success status s, the response is
\* status s with "Weather service error: " followed by the provider's message
\* or the fallback, and the mapping never runs.
C5_UpstreamPassthrough ==
    AnsweredWith(FALSE) =>
        /\ responses
             = <<Response(weatherResponse.status,
                          [error |-> <<"Weather service error: ">>
                                       \o ErrorMessage(data)])>>
        /\ ~mapped

\* a decoded payload lacks one of location, current, forecast.forecastday
LacksSection(d) ==
    \/ ~Has(d, "location")
    \/ ~Has(d, "current")
    \/ ~Has(d, "forecast")
    \/ ~Has(d.forecast, "forecastday")

\* C6: when the provider answers with a success status and the decoded payload
\* lacks one of the three sections, the response is the 502 'Invalid weather
\* data' response.
C6_IncompletePayload ==
    (AnsweredWith(TRUE) /\ data # NotJson /\ LacksSection(data)) =>
        responses = <<Response(502, InvalidDataBody)>>

\* a payload with its three sections and a malformed nested field: an empty
\* forecastday array, a day without a condition block, an hour without a time
MalformedNested(d) ==
    /\ ~LacksSection(d)
    /\ d.forecast.forecastday.isArray
    /\ LET fd == d.forecast.forecastday.items IN
       \/ fd = <<>>
       \/ \E i \in 1..Len(fd) : ~Has(fd[i].day, "condition")
       \/ \E i \in 1..Min(2, Len(fd)) :
             /\ HourIsArray(fd[i])
             /\ \E j \in 1..Len(fd[i].hour.items) : ~Has(fd[i].hour.items[j], "time")

\* C7: a payload that passes the structural check with a malformed nested
\* field is answered with a 502, never with a 200.
C7_MalformedIs502 ==
    (AnsweredWith(TRUE) /\ data # NotJson /\ MalformedNested(data)) =>
        /\ Len(responses) = 1
        /\ responses[1].status = 502

\* C8: an outbound call is never still pending more than 15 seconds after it
\* was issued (it is ended as a timeout when the 15 seconds are up).
C8_CallEndsAtTimeout ==
    pc = "fetch" => pending <= TimeoutSecs

\* the faults the catch clause may be handed
Faults ==
    {FetchFailed, JsonSyntaxError, PropertyTypeError,
     Error("AbortError", <<"This operation was aborted">>),
     Str(<<"thrown string">>)}

AlertRecords(d) ==
    IF Has(d, "alerts") /\ Has(d.alerts, "alert") /\ d.alerts.alert.isArray
    THEN d.alerts.alert.items
    ELSE <<>>

\* the title the contract gives an alert: event, else headline, else "Alert"
ContractTitle(alert) ==
    IF Has(alert, "event") THEN alert.event
    ELSE IF Has(alert, "headline") THEN alert.headline
    ELSE <<"Alert">>

\* C10: in every 200 response the alerts field is present exactly when the
\* payload carries at least one alert record; when present it has one entry
\* per source alert, in source order.
C10_AlertsPresence ==
    (Done /\ Len(responses) = 1 /\ responses[1].status = 200) =>
        LET body == responses[1].body
            src == AlertRecords(data)
        IN  /\ Has(body, "alerts") <=> Len(src) > 0
            /\ Has(body, "alerts") =>
                  /\ Len(body.alerts) = Len(src)
                  /\ \A i \in 1..Len(src) : body.alerts[i].title = ContractTitle(src[i])

\* a 200 response built from a payload with two alerts of different kinds
C10_Witness ==
    /\ Done
    /\ Len(responses) = 1
    /\ responses[1].status = 200
    /\ Len(AlertRecords(data)) = 2
    /\ ContractTitle(AlertRecords(data)[1]) # ContractTitle(AlertRecords(data)[2])
    /\ Has(responses[1].body, "alerts")

-----------------------------------------------------------------------------
(* C11 .. C18: the mapping of the payload *)

\* the request was answered 200
Ok200 == Done /\ Len(responses) = 1 /\ responses[1].status = 200
Body == responses[1].body
SourceDays == data.forecast.forecastday.items

\* C11: in every 200 response, the description of an alert whose source record
\* has no description field is the empty string.
C11_AbsentDescIsEmpty ==
    Ok200 =>
        \A i \in 1..Len(AlertRecords(data)) :
            ~Has(AlertRecords(data)[i], "desc") => Body.alerts[i].description = <<>>

\* C12: in every 200 response, an alert whose source description is present
\* with n characters has that description unchanged when n <= 200 and its
\* first 200 characters followed by "..." (203 characters) when n > 200.
C12_DescriptionTruncation ==
    Ok200 =>
        \A i \in 1..Len(AlertRecords(data)) :
            Has(AlertRecords(data)[i], "desc") =>
                LET desc == AlertRecords(data)[i].desc
                    out == Body.alerts[i].description
                IN  /\ Len(desc) <= DescLimit => out = desc
                    /\ Len(desc) > DescLimit =>
                          /\ out = SubSeq(desc, 1, DescLimit) \o <<".", ".", ".">>
                          /\ Len(out) = DescLimit + 3

\* a 200 response carrying an alert that was cut and one that was not
C12_Witness ==
    /\ Ok200
    /\ Len(AlertRecords(data)) = 2
    /\ Len(AlertRecords(data)[1].desc) = 0
    /\ Len(AlertRecords(data)[2].desc) > DescLimit
    /\ Len(Body.alerts[2].description) = DescLimit + 3

\* C13: when forecastday has exactly one entry, the 200 response has an empty
\* tomorrowHourlyForecast and no tomorrowDaySummary field.
C13_OneDayNoSummaryField ==
    (Ok200 /\ Len(SourceDays) = 1) =>
        /\ Body.tomorrowHourlyForecast = <<>>
        /\ ~Has(Body, "tomorrowDaySummary")

\* the hour records of a day, none when the hour array is absent or no array
HourRecords(day) ==
    IF Has(day, "hour") /\ day.hour.isArray THEN day.hour.items ELSE <<>>

\* an hourly list has one entry per hour record, in order, each with the
\* characters 11 to 15 (counted from 0) of the record's time
HourlyMatches(out, day) ==
    /\ Len(out) = Len(HourRecords(day))
    /\ \A j \in 1..Len(out) : out[j].time = SubSeq(HourRecords(day)[j].time, 12, 16)

\* C14: in every 200 response hourlyForecast, and tomorrowHourlyForecast when
\* a second day exists, has one entry per hour record of its day, in order,
\* with time = characters [11,16) of the hour's time; with the hour array
\* absent or not an array the list is an empty sequence and the field exists.
C14_HourlyLists ==
    Ok200 =>
        /\ Has(Body, "hourlyForecast")
        /\ Has(Body, "tomorrowHourlyForecast")
        /\ HourlyMatches(Body.hourlyForecast, SourceDays[1])
        /\ Len(SourceDays) > 1 =>
              HourlyMatches(Body.tomorrowHourlyForecast, SourceDays[2])

\* today with two hour records, tomorrow with an hour property that is no array
C14_Witness ==
    /\ Ok200
    /\ Len(SourceDays) > 1
    /\ Len(HourRecords(SourceDays[1])) = 2
    /\ Has(SourceDays[2], "hour")
    /\ ~SourceDays[2].hour.isArray
    /\ Body.hourlyForecast[2].time = <<"0", "6", ":", "0", "0">>
    /\ Body.tomorrowHourlyForecast = <<>>

\* C15: in every 200 response dailyForecast has one entry per forecast day, in
\* source order, entry i with dt equal to the i-th day's epoch; a 7-entry
\* array gives 7 entries.
C15_DailyForecast ==
    Ok200 =>
        /\ Len(Body.dailyForecast) = Len(SourceDays)
        /\ \A i \in 1..Len(SourceDays) :
              Body.dailyForecast[i].dt = SourceDays[i].date_epoch

\* a 200 response built from a 7-entry forecastday array
C15_Witness ==
    /\ Ok200
    /\ Len(SourceDays) = DaysRequested
    /\ Len(Body.dailyForecast) = DaysRequested
    /\ Body.dailyForecast[DaysRequested].dt = SourceDays[DaysRequested].date_epoch

\* C16: whatever the length of forecastday, the dailyForecast of a 200 response
\* has at most 7 entries.
C16_DailyAtMostSeven ==
    Ok200 => Len(Body.dailyForecast) <= DaysRequested

\* a number in tenths that has no fractional part
IsWhole(x) == x % 10 = 0

WholeHour(h) == IsWhole(h.temp) /\ IsWhole(h.humidity) /\ IsWhole(h.windSpeed)
WholeDay(d) == IsWhole(d.temp) /\ IsWhole(d.min) /\ IsWhole(d.max)

\* C17: in every 200 response every numeric display value is an integer:
\* temperatures, percentages, speeds, visibility and the other numeric fields.
C17_AllWhole ==
    Ok200 =>
        /\ IsWhole(Body.temperature) /\ IsWhole(Body.feelsLike)
        /\ IsWhole(Body.high) /\ IsWhole(Body.low)
        /\ IsWhole(Body.humidity)
        /\ IsWhole(Body.windSpeed) /\ IsWhole(Body.visibility)
        /\ IsWhole(Body.windDirection) /\ IsWhole(Body.uvIndex)
        /\ IsWhole(Body.pressure)
        /\ \A j \in 1..Len(Body.hourlyForecast) : WholeHour(Body.hourlyForecast[j])
        /\ \A j \in 1..Len(Body.tomorrowHourlyForecast) :
              WholeHour(Body.tomorrowHourlyForecast[j])
        /\ \A i \in 1..Len(Body.dailyForecast) : WholeDay(Body.dailyForecast[i])

\* C18: whenever a second forecast day exists, tomorrowDaySummary equals the
\* second entry of dailyForecast on temp, min, max, condition, description
\* and icon, whether or not that day has an hour array.
C18_SummaryIsSecondDay ==
    (Ok200 /\ Len(SourceDays) > 1) =>
        LET s == Body.tomorrowDaySummary
            d == Body.dailyForecast[2]
        IN  /\ s.temp = d.temp
            /\ s.min = d.min
            /\ s.max = d.max
            /\ s.condition = d.condition
            /\ s.description = d.description
            /\ s.icon = d.icon
            /\ s.temp = MathRound(SourceDays[2].day.avgtemp_c)

\* a second day without an hour array, summarised all the same
C18_Witness ==
    /\ Ok200
    /\ Len(SourceDays) > 1
    /\ ~Has(SourceDays[2], "hour")
    /\ Body.tomorrowDaySummary.temp = Body.dailyForecast[2].temp
    /\ Body.tomorrowDaySummary.temp # Body.tomorrowDaySummary.max
-----------------------------------------------------------------------------
(* The dashboard's automatic load *)

NoUserAction == userActions = 0
\* nothing is under way: no position is awaited and no request is in flight
PageIdle == geoLookups = {} /\ inflight = {}
CapReached == retryCount >= MaxAutoRetries

\* C19: the auto-load effect starts a load only while retryCount is below 3 and
\* weatherData is null, and while there is no weather data and the user has done
\* nothing it has started at most 3 loads, which have issued at most 3 requests.
C19_BoundedAutoLoad ==
    /\ \A i \in 1..Len(attemptLog) :
          attemptLog[i].retryCount < MaxAutoRetries /\ ~attemptLog[i].hadData
    /\ (weatherData = JsNull /\ NoUserAction) =>
          (Len(attemptLog) <= MaxAutoRetries /\ Len(issued) <= MaxAutoRetries)

\* three automatic loads have been started and have failed, and the effect has
\* not started a fourth
C19_Witness ==
    /\ weatherData = JsNull /\ NoUserAction
    /\ Len(attemptLog) = MaxAutoRetries /\ Len(issued) = MaxAutoRetries
    /\ CapReached /\ PageIdle

\* C20: once the automatic loads have failed up to the cap of 3 and nothing is
\* under way, with no weather data and no user action, a request for the default
\* city London has been issued.
C20_FallsBackToDefault ==
    (weatherData = JsNull /\ NoUserAction /\ CapReached /\ PageIdle) =>
        \E i \in 1..Len(issued) :
            issued[i].fn = "fetchWeather" /\ issued[i].city = London

-----------------------------------------------------------------------------
(* The dashboard's requests *)

\* this step issues exactly one request, and it is fn's request for city
IssuesOne(fn, city) ==
    /\ Len(issued') = Len(issued) + 1
    /\ issued'[Len(issued')] = [fn |-> fn, city |-> city]

IssuesNone == issued' = issued

\* this step is a run of the auto-load effect in a browser without geolocation
UnavailableLoad == ~hasGeolocation /\ Len(attemptLog') = Len(attemptLog) + 1

\* C21: while the user has done nothing, every step in which the position is
\* refused, or in which the auto-load effect starts a load without geolocation,
\* issues one request for the default city London.
C21_GeoFailureLoadsLondon ==
    [][(NoUserAction /\ (GeoError \/ UnavailableLoad)) =>
          IssuesOne("fetchWeather", London)]_vars

\* C22: every request has ended no later than 15 seconds after it started, and
\* the page is in the loading state only while a request is in flight.
C22_RequestsEndInTime ==
    /\ \A r \in inflight : r.age <= TimeoutSecs
    /\ loading => inflight # {}

\* C24: at most one request to the proxy is in flight at any time.
C24_OneInFlight == Cardinality(inflight) <= 1

\* the city handleRetry asks for: the last one fetched, London when none was
RetryCity == IF lastFetchedCity # <<>> THEN lastFetchedCity ELSE London

\* C25: a click on Retry while no request is in flight clears the error, resets
\* retryCount to 0 and issues one request, for lastFetchedCity when a city was
\* fetched before and for London otherwise.
C25_RetryIssuesRequest ==
    [][(handleRetry /\ inflight = {}) =>
          /\ error' = JsNull
          /\ retryCount' = 0
          /\ IssuesOne("fetchWeather", RetryCity)]_vars

\* C26: a submit of the search form while no request is in flight issues exactly
\* one request for the trimmed city when it has at least 2 characters, and
\* otherwise issues none and sets the validation error.
C26_SearchIssuesRequest ==
    [][\A searchCity \in SearchInputs :
          (handleSearch(searchCity) /\ inflight = {}) =>
              IF Len(Trim(searchCity)) >= 2
              THEN IssuesOne("fetchWeather", Trim(searchCity))
              ELSE IssuesNone /\ error' = Str(ValidationText)]_vars

\* an answer that is a failure, a timeout, or a body without a city or without
\* a numeric temperature
Failing(ans) ==
    \/ ans.type = "rejected"
    \/ ~ans.ok
    \/ ans.body = NotJson
    \/ ~Has(ans.body, "city")
    \/ ~Has(ans.body, "temperature")

\* C27: whatever answer a pending request gets, the updates it makes are these:
\* on a failing answer weatherData stays as it is, error becomes a non-empty
\* message and retryCount grows by one; on a valid answer weatherData becomes
\* the body, error becomes null and retryCount becomes 0.
C27_SettledFrame ==
    \A r \in inflight : \A ans \in Answers(r) :
        LET w == Settled(Page, r, ans)
        IN  IF Failing(ans)
            THEN /\ w.weatherData = weatherData
                 /\ w.error # JsNull /\ w.error.str # <<>>
                 /\ w.retryCount = retryCount + 1
            ELSE /\ w.weatherData = ans.body
                 /\ w.error = JsNull
                 /\ w.retryCount = 0

\* a forecast was loaded, a later request for another city failed, and the
\* forecast is still there beside the error
C27_Witness ==
    /\ weatherData # JsNull
    /\ error # JsNull
    /\ retryCount = 1
    /\ Len(issued) = 2
    /\ inflight = {}

-----------------------------------------------------------------------------
(* The temperature unit toggle *)

\* round(c * 9 / 5 + 32) for F and c for C, on a whole Celsius value in tenths
InUnit(unit, t) ==
    IF unit = "F" THEN (((t * 9) \div 5 + 320 + 5) \div 10) * 10 ELSE t

\* C23: with a forecast loaded, the current temperature, each temperature of
\* the hourly strip and each point of the hourly chart is round(c*9/5+32) of
\* the stored Celsius value c when the unit is F, and c when the unit is C.
C23_ShownInUnit ==
    (weatherData # JsNull /\ Has(weatherData, "hourlyForecast")) =>
        /\ ShownTemperature = InUnit(tempUnit, weatherData.temperature)
        /\ \A i \in 1..Len(weatherData.hourlyForecast) :
              /\ ShownHourly[i] = InUnit(tempUnit, weatherData.hourlyForecast[i].temp)
              /\ ShownChart[i].temperature =
                    InUnit(tempUnit, weatherData.hourlyForecast[i].temp)

====
